---- MODULE Spec2Model ----
(***************************************************************************)
(* Authentication core of the content-management backend: the credential   *)
(* store lookup, the bcrypt comparison, the JWT manager (golang-jwt v5,     *)
(* HS256) and the AuthUseCase operations Login and Refresh.                *)
(*                                                                         *)
(* Time is counted in ticks, TicksPerSec of them to the second, so that    *)
(* the truncation done by time.Time.Unix() is visible.  A signed token is  *)
(* modelled by the data that determines its string: the claims and the     *)
(* key that signed it (HS256 is deterministic and the JSON encoding of a   *)
(* MapClaims sorts its keys, so equal claims and key give the same string, *)
(* and different ones different strings).                                  *)
(***************************************************************************)
EXTENDS Integers, Sequences, FiniteSets, TLC

(* ------------------------------ bounds -------------------------------- *)
TicksPerSec == 2
MaxTime == 3
MaxTTL == 2

Times == 0..MaxTime
TTLs == 1..MaxTTL

(* ------------------------------ errors -------------------------------- *)
Nil == "nil"
ErrInvalidToken == "invalid token"
ErrInvalidCredentials == "invalid credentials"
ErrNotFound == "resource not found"
ErrInvalidTokenClaims == "invalid token claims"
ErrInvalidTokenType == "invalid token type"
ErrDatabaseConnection == "database connection failed"
ErrGenerateAccessToken == "failed to generate access token"
ErrGenerateRefreshToken == "failed to generate refresh token"
\* errors of the libraries the code calls
ErrTokenMalformed == "token is malformed"
ErrTokenSignatureInvalid == "token signature is invalid"
ErrTokenExpired == "token has invalid claims: token is expired"
ErrSigning == "signing failed"
ErrHashTooShort == "crypto/bcrypt: hashedSecret too short to be a bcrypted password"
ErrMismatchedHashAndPassword == "crypto/bcrypt: hashedPassword is not the hash of the given password"

(* --------------------------- credential store -------------------------- *)
\* a bcrypt hash: well formed (wf) hashes remember the password they were made from
GenerateFromPassword(pw) == [wf |-> TRUE, pw |-> pw]
EmptyHash == [wf |-> FALSE, pw |-> ""]

\* a comparison that accepts every password
CompareHashAndPasswordNoCheck(hash, pw) == Nil

CompareHashAndPassword(hash, pw) ==
    IF ~hash.wf THEN ErrHashTooShort
    ELSE IF hash.pw = pw THEN Nil
    ELSE ErrMismatchedHashAndPassword

Usernames == {"admin", "user1", "testuser"}
LoginNames == Usernames \cup {"ghost", ""}
Passwords == {"admin123", "password123", ""}

\* the users table after seeding, plus a user created with an empty password column
SeededUsers ==
    [u \in Usernames |->
        CASE u = "admin" -> [ID |-> "id-admin", Username |-> u, Password |-> GenerateFromPassword("admin123")]
          [] u = "user1" -> [ID |-> "id-user1", Username |-> u, Password |-> GenerateFromPassword("password123")]
          [] u = "testuser" -> [ID |-> "id-test", Username |-> u, Password |-> EmptyHash]]

UserIDs == {"id-admin", "id-user1", "id-test"}
NoUser == [ID |-> "", Username |-> "", Password |-> EmptyHash]

(* -------------------------------- tokens -------------------------------- *)
Absent == "<absent>"
NonString == "<not a string>"
Secrets == {"secret-a", "secret-b"}
EmptyTok == [form |-> "empty", user_id |-> Absent, type |-> Absent, exp |-> 0, key |-> ""]
Garbage == [form |-> "garbage", user_id |-> Absent, type |-> Absent, exp |-> 0, key |-> ""]

Unix(t) == t \div TicksPerSec
MaxSec == Unix(MaxTime + MaxTTL)

Types == {Absent, "refresh", "access"}
ClaimIDs == UserIDs \cup {Absent, NonString}
JWTs == [form : {"jwt"}, user_id : ClaimIDs, type : Types, exp : 0..MaxSec, key : Secrets]

\* the tokens a client can make up: no token, a string that is no JWT, and the JWTs that differ
\* in at most one claim from a refresh token for the admin that never expires within MaxTime
Differences(tok) ==
    (IF tok.user_id # "id-admin" THEN 1 ELSE 0) + (IF tok.type # "refresh" THEN 1 ELSE 0)
      + (IF tok.exp # MaxSec THEN 1 ELSE 0)
Tokens == {tok \in JWTs : Differences(tok) <= 1 /\ tok.exp \in {0, MaxSec} /\ tok.user_id # "id-test"}
             \cup {EmptyTok, Garbage}

\* jwt.NewWithClaims(HS256, claims).SignedString(key)
SignedString(userID, type, exp, key) ==
    [form |-> "jwt", user_id |-> userID, type |-> type, exp |-> exp, key |-> key]

NilClaims == [isNil |-> TRUE, user_id |-> Absent, type |-> Absent, exp |-> 0]
MapClaims(tok) == [isNil |-> FALSE, user_id |-> tok.user_id, type |-> tok.type, exp |-> tok.exp]

\* config.JWT, fixed by NewJWTManager: the secrets may be equal or differ, and the refresh
\* token is the longer-lived of the two
Configs == {cfg \in [AccessTokenSecretKey : {"secret-b"}, RefreshTokenSecretKey : Secrets,
                     AccessTokenTTL : TTLs, RefreshTokenTTL : TTLs] :
               cfg.AccessTokenTTL <= cfg.RefreshTokenTTL}

GenerateAccessToken(cfg, userID, t, signErr) ==
    IF signErr # Nil THEN [tok |-> EmptyTok, err |-> signErr]
    ELSE [tok |-> SignedString(userID, Absent, Unix(t + cfg.AccessTokenTTL), cfg.AccessTokenSecretKey),
          err |-> Nil]

\* a refresh generator that is a copy of the access generator
GenerateRefreshTokenLikeAccess(cfg, userID, t, signErr) ==
    IF signErr # Nil THEN [tok |-> EmptyTok, err |-> signErr]
    ELSE [tok |-> SignedString(userID, Absent, Unix(t + cfg.AccessTokenTTL), cfg.AccessTokenSecretKey),
          err |-> Nil]

GenerateRefreshToken(cfg, userID, t, signErr) ==
    IF signErr # Nil THEN [tok |-> EmptyTok, err |-> signErr]
    ELSE [tok |-> SignedString(userID, "refresh", Unix(t + cfg.RefreshTokenTTL), cfg.RefreshTokenSecretKey),
          err |-> Nil]

\* Parse treating the exp claim as one second earlier than it is
ParseEarly(tok, key, t) ==
    IF tok.form # "jwt" THEN ErrTokenMalformed
    ELSE IF tok.key # key THEN ErrTokenSignatureInvalid
    ELSE IF ~(t < (tok.exp - 1) * TicksPerSec) THEN ErrTokenExpired
    ELSE Nil

\* Parse without the check of the exp claim
ParseNoExpiry(tok, key, t) ==
    IF tok.form # "jwt" THEN ErrTokenMalformed
    ELSE IF tok.key # key THEN ErrTokenSignatureInvalid
    ELSE Nil

\* jwt.Parse with the key function returning key: segments, then signature, then the exp claim
\* (the validator accepts while now.Before(exp), exp being a whole second)
Parse(tok, key, t) ==
    IF tok.form # "jwt" THEN ErrTokenMalformed
    ELSE IF tok.key # key THEN ErrTokenSignatureInvalid
    ELSE IF ~(t < tok.exp * TicksPerSec) THEN ErrTokenExpired
    ELSE Nil

\* the access validator verifying with the refresh secret
ParseAndValidateAccessTokenRefreshKey(cfg, tok, t) ==
    LET err == Parse(tok, cfg.RefreshTokenSecretKey, t) IN
    IF err # Nil THEN [claims |-> NilClaims, err |-> err]
    ELSE [claims |-> MapClaims(tok), err |-> Nil]

ParseAndValidateAccessToken(cfg, tok, t) ==
    LET err == Parse(tok, cfg.AccessTokenSecretKey, t) IN
    IF err # Nil THEN [claims |-> NilClaims, err |-> err]
    ELSE [claims |-> MapClaims(tok), err |-> Nil]

\* the refresh validator without the check of the type claim
ParseAndValidateRefreshTokenNoType(cfg, tok, t) ==
    LET err == Parse(tok, cfg.RefreshTokenSecretKey, t) IN
    IF err # Nil THEN [claims |-> NilClaims, err |-> err]
    ELSE [claims |-> MapClaims(tok), err |-> Nil]

ParseAndValidateRefreshToken(cfg, tok, t) ==
    LET err == Parse(tok, cfg.RefreshTokenSecretKey, t) IN
    IF err # Nil THEN [claims |-> NilClaims, err |-> err]
    ELSE IF MapClaims(tok).type # "refresh" THEN [claims |-> NilClaims, err |-> ErrInvalidTokenType]
    ELSE [claims |-> MapClaims(tok), err |-> Nil]

(* ------------------------------ use case -------------------------------- *)
NilResp == [isNil |-> TRUE, AccessToken |-> EmptyTok, RefreshToken |-> EmptyTok]
AuthResponseDTO(acc, ref) == [isNil |-> FALSE, AccessToken |-> acc, RefreshToken |-> ref]

\* GetByUsername handing sql.ErrNoRows on unmapped
GetByUsernameNoRows(us, username, dbErr) ==
    IF dbErr # Nil THEN [user |-> NoUser, err |-> dbErr]
    ELSE IF username \notin DOMAIN us THEN [user |-> NoUser, err |-> "sql: no rows in result set"]
    ELSE [user |-> us[username], err |-> Nil]

\* UserRepo.GetByUsername; dbErr is the failure of the query, Nil when the database answers
GetByUsername(us, username, dbErr) ==
    IF dbErr # Nil THEN [user |-> NoUser, err |-> dbErr]
    ELSE IF username \notin DOMAIN us THEN [user |-> NoUser, err |-> ErrNotFound]
    ELSE [user |-> us[username], err |-> Nil]

\* token issuance that generates the refresh token first
IssuePairRefreshFirst(cfg, userID, t, accErr, refErr, calls) ==
    LET acc == GenerateAccessToken(cfg, userID, t, accErr)
        ref == GenerateRefreshToken(cfg, userID, t, refErr)
    IN  IF ref.err # Nil
        THEN [resp |-> NilResp, err |-> ref.err,
              calls |-> calls \o <<"GenerateRefreshToken">>]
        ELSE IF acc.err # Nil
        THEN [resp |-> NilResp, err |-> acc.err,
              calls |-> calls \o <<"GenerateRefreshToken", "GenerateAccessToken">>]
        ELSE [resp |-> AuthResponseDTO(acc.tok, ref.tok), err |-> Nil,
              calls |-> calls \o <<"GenerateRefreshToken", "GenerateAccessToken">>]

\* token issuance that calls the access generator a second time when it failed
IssuePairRetry(cfg, userID, t, accErr, refErr, calls) ==
    LET acc == GenerateAccessToken(cfg, userID, t, accErr)
        ref == GenerateRefreshToken(cfg, userID, t, refErr)
    IN  IF acc.err # Nil
        THEN [resp |-> NilResp, err |-> acc.err,
              calls |-> calls \o <<"GenerateAccessToken", "GenerateAccessToken">>]
        ELSE IF ref.err # Nil
        THEN [resp |-> NilResp, err |-> ref.err,
              calls |-> calls \o <<"GenerateAccessToken", "GenerateRefreshToken">>]
        ELSE [resp |-> AuthResponseDTO(acc.tok, ref.tok), err |-> Nil,
              calls |-> calls \o <<"GenerateAccessToken", "GenerateRefreshToken">>]

\* the tail shared by Login and Refresh: access token first, then refresh token
IssuePair(cfg, userID, t, accErr, refErr, calls) ==
    LET acc == GenerateAccessToken(cfg, userID, t, accErr)
        ref == GenerateRefreshToken(cfg, userID, t, refErr)
    IN  IF acc.err # Nil
        THEN [resp |-> NilResp, err |-> acc.err, calls |-> Append(calls, "GenerateAccessToken")]
        ELSE IF ref.err # Nil
        THEN [resp |-> NilResp, err |-> ref.err,
              calls |-> calls \o <<"GenerateAccessToken", "GenerateRefreshToken">>]
        ELSE [resp |-> AuthResponseDTO(acc.tok, ref.tok), err |-> Nil,
              calls |-> calls \o <<"GenerateAccessToken", "GenerateRefreshToken">>]

\* Login with the test of the comparison's error inverted
LoginResultInverted(cfg, us, username, password, t, dbErr, accErr, refErr) ==
    LET got == GetByUsername(us, username, dbErr) IN
    IF got.err # Nil
    THEN [resp |-> NilResp, err |-> got.err, calls |-> <<"GetByUsername">>]
    ELSE IF CompareHashAndPassword(got.user.Password, password) = Nil
    THEN [resp |-> NilResp, err |-> ErrInvalidCredentials, calls |-> <<"GetByUsername">>]
    ELSE IssuePair(cfg, got.user.ID, t, accErr, refErr, <<"GetByUsername">>)

LoginResult(cfg, us, username, password, t, dbErr, accErr, refErr) ==
    LET got == GetByUsername(us, username, dbErr) IN
    IF got.err # Nil
    THEN [resp |-> NilResp, err |-> got.err, calls |-> <<"GetByUsername">>]
    ELSE IF CompareHashAndPassword(got.user.Password, password) # Nil
    THEN [resp |-> NilResp, err |-> ErrInvalidCredentials, calls |-> <<"GetByUsername">>]
    ELSE IssuePair(cfg, got.user.ID, t, accErr, refErr, <<"GetByUsername">>)

\* Refresh that issues the new pair for the first seeded user, whatever the token's subject
RefreshResultFixedSubject(cfg, refreshToken, t, accErr, refErr) ==
    LET parsed == ParseAndValidateRefreshToken(cfg, refreshToken, t) IN
    IF parsed.err # Nil
    THEN [resp |-> NilResp, err |-> parsed.err, calls |-> <<"ParseAndValidateRefreshToken">>]
    ELSE IF parsed.claims.user_id \in {Absent, NonString}
    THEN [resp |-> NilResp, err |-> ErrInvalidTokenClaims, calls |-> <<"ParseAndValidateRefreshToken">>]
    ELSE IssuePair(cfg, "id-admin", t, accErr, refErr, <<"ParseAndValidateRefreshToken">>)

\* Refresh without the type assertion on the user_id claim
RefreshResultNoClaimCheck(cfg, refreshToken, t, accErr, refErr) ==
    LET parsed == ParseAndValidateRefreshToken(cfg, refreshToken, t) IN
    IF parsed.err # Nil
    THEN [resp |-> NilResp, err |-> parsed.err, calls |-> <<"ParseAndValidateRefreshToken">>]
    ELSE IssuePair(cfg, parsed.claims.user_id, t, accErr, refErr, <<"ParseAndValidateRefreshToken">>)

RefreshResult(cfg, refreshToken, t, accErr, refErr) ==
    LET parsed == ParseAndValidateRefreshToken(cfg, refreshToken, t) IN
    IF parsed.err # Nil
    THEN [resp |-> NilResp, err |-> parsed.err, calls |-> <<"ParseAndValidateRefreshToken">>]
    ELSE IF parsed.claims.user_id \in {Absent, NonString}
    THEN [resp |-> NilResp, err |-> ErrInvalidTokenClaims, calls |-> <<"ParseAndValidateRefreshToken">>]
    ELSE IssuePair(cfg, parsed.claims.user_id, t, accErr, refErr, <<"ParseAndValidateRefreshToken">>)

(* -------------------------------- state --------------------------------- *)
\* users  : the users table
\* config : the config.JWT the manager was constructed with
\* now    : the clock, in ticks
\* held   : a token a client kept from an earlier response, with where it came from
\* last   : the call made at the current instant and what it returned
\* inflight : for each request goroutine, the call it is executing and its local variables
\* db     : the rows of the categories, news, custom_pages and comments tables
\* pg     : the progress of postgres.New
\* seed   : the progress of seedUsers
\* logins : the ids of the users for whom a Login has succeeded
VARIABLES users, config, now, held, last, inflight, db, pg, seed, logins
vars == <<users, config, now, held, last, inflight, db, pg, seed, logins>>

Range(seq) == {seq[i] : i \in DOMAIN seq}
NoHeld == [tok |-> EmptyTok, origin |-> "none", subject |-> Absent, issuedAt |-> 0]
Forged(tok) == [tok |-> tok, origin |-> "forged", subject |-> tok.user_id, issuedAt |-> 0]
Presented == {held} \cup {Forged(tok) : tok \in Tokens}
NoFaults == [db |-> Nil, acc |-> Nil, ref |-> Nil]
NoReq == [UserName |-> "", Password |-> ""]
SignErrs == {Nil, ErrSigning}
DbErrs == {Nil, ErrDatabaseConnection}
Keeps == {"none", "access", "refresh"}

\* what the client keeps of a response issued for subject at the current time
Keep(keep, resp, subject) ==
    IF resp.isNil \/ keep = "none" THEN held
    ELSE IF keep = "access"
    THEN [tok |-> resp.AccessToken, origin |-> "GenerateAccessToken", subject |-> subject, issuedAt |-> now]
    ELSE [tok |-> resp.RefreshToken, origin |-> "GenerateRefreshToken", subject |-> subject, issuedAt |-> now]

\* the inputs that cannot change the outcome of a call are fixed: a signing fault of a
\* generator that is not called, and the choice of what to keep of a response that is nil
Pruned(r, accErr, refErr, keep) ==
    /\ (r.resp.isNil => keep = "none")
    /\ ("GenerateAccessToken" \notin Range(r.calls) => accErr = Nil)
    /\ ("GenerateRefreshToken" \notin Range(r.calls) => refErr = Nil)

\* the response of the call before, when that was a successful Refresh of the same token
Repeat(tok) ==
    IF last.op = "Refresh" /\ last.input.tok = tok /\ ~last.resp.isNil THEN last.resp ELSE NilResp

\* the goroutines serving requests at the same time
Procs == {"g1", "g2"}
Idle ==
    [pc |-> "idle", op |-> "none", req |-> NoReq, tok |-> EmptyTok, faults |-> NoFaults,
     user |-> NoUser, userID |-> Absent, accessToken |-> EmptyTok,
     err |-> Nil, resp |-> NilResp, overlapped |-> FALSE]

\* the tables before any row was created
\* serial is the number of ids the table has given out, rows maps the ids of its rows to them
EmptyTable == [serial |-> 0, rows |-> << >>]
NoRows == [categories |-> EmptyTable, news |-> EmptyTable, custom_pages |-> EmptyTable,
           comments |-> {}]

\* postgres.New was not called yet
NotConnected ==
    [pc |-> "idle", connAttempts |-> 0, attempt |-> 0, handles |-> << >>, err |-> Nil,
     DB |-> 0, returned |-> "none"]

\* seedUsers was not called yet
NotSeeded ==
    [pc |-> "idle", run |-> 0, i |-> 0, lookupErr |-> Nil, hashed |-> EmptyHash,
     err |-> Nil, prevErr |-> Nil, before |-> << >>, lookups |-> << >>, creates |-> << >>]

NoCall(t) ==
    [op |-> "none", repeat |-> NilResp, faults |-> NoFaults, time |-> t, req |-> NoReq,
     input |-> NoHeld, err |-> Nil, resp |-> NilResp, claims |-> NilClaims, calls |-> << >>]

Init ==
    /\ users = SeededUsers
    /\ config \in Configs
    /\ now = 0
    /\ held = NoHeld
    /\ last = NoCall(0)
    /\ inflight = [g \in Procs |-> Idle]
    /\ db = NoRows
    /\ pg = NotConnected
    /\ seed = NotSeeded
    /\ logins = {}

\* the clock advances; the calls of the instant before are over
Tick ==
    /\ now < MaxTime
    /\ now' = now + 1
    /\ last' = NoCall(now + 1)
    /\ UNCHANGED <<users, config, held, inflight, db, pg, seed, logins>>

\* a Login that registers the user it did not find
LoginCreates ==
    \E username \in LoginNames, password \in Passwords, dbErr \in DbErrs,
       accErr \in SignErrs, refErr \in SignErrs, keep \in Keeps :
        LET r == LoginResult(config, users, username, password, now, dbErr, accErr, refErr) IN
        /\ Pruned(r, accErr, refErr, keep)
        /\ last' = [op |-> "Login", repeat |-> NilResp,
                    faults |-> [db |-> dbErr, acc |-> accErr, ref |-> refErr], time |-> now,
                    req |-> [UserName |-> username, Password |-> password], input |-> NoHeld,
                    err |-> r.err, resp |-> r.resp, claims |-> NilClaims, calls |-> r.calls]
        /\ held' = Keep(keep, r.resp, GetByUsername(users, username, Nil).user.ID)
        /\ users' = IF r.err = ErrNotFound
                    THEN [u \in DOMAIN users \cup {username} |->
                            IF u \in DOMAIN users THEN users[u]
                            ELSE [ID |-> "id-new", Username |-> u,
                                  Password |-> GenerateFromPassword(password)]]
                    ELSE users
        /\ UNCHANGED <<config, now, inflight, db, pg, seed, logins>>

Login ==
    \E username \in LoginNames, password \in Passwords, dbErr \in DbErrs,
       accErr \in SignErrs, refErr \in SignErrs, keep \in Keeps :
        LET r == LoginResult(config, users, username, password, now, dbErr, accErr, refErr) IN
        /\ Pruned(r, accErr, refErr, keep)
        /\ last' = [op |-> "Login", repeat |-> NilResp,
                    faults |-> [db |-> dbErr, acc |-> accErr, ref |-> refErr], time |-> now,
                    req |-> [UserName |-> username, Password |-> password], input |-> NoHeld,
                    err |-> r.err, resp |-> r.resp, claims |-> NilClaims, calls |-> r.calls]
        /\ held' = Keep(keep, r.resp, GetByUsername(users, username, Nil).user.ID)
        /\ UNCHANGED <<users, config, now, inflight, db, pg, seed, logins>>

Refresh ==
    \E p \in Presented, accErr \in SignErrs, refErr \in SignErrs, keep \in Keeps :
        LET r == RefreshResult(config, p.tok, now, accErr, refErr) IN
        /\ Pruned(r, accErr, refErr, keep)
        /\ last' = [op |-> "Refresh", repeat |-> Repeat(p.tok),
                    faults |-> [db |-> Nil, acc |-> accErr, ref |-> refErr], time |-> now, req |-> NoReq, input |-> p,
                    err |-> r.err, resp |-> r.resp, claims |-> NilClaims, calls |-> r.calls]
        /\ held' = Keep(keep, r.resp, p.tok.user_id)
        /\ UNCHANGED <<users, config, now, inflight, db, pg, seed, logins>>

\* AuthMiddleware's call of the access validator
ValidateAccess ==
    \E p \in Presented :
        LET r == ParseAndValidateAccessToken(config, p.tok, now) IN
        /\ last' = [op |-> "ParseAndValidateAccessToken", repeat |-> NilResp, faults |-> NoFaults, time |-> now,
                    req |-> NoReq, input |-> p, err |-> r.err, resp |-> NilResp,
                    claims |-> r.claims, calls |-> << >>]
        /\ UNCHANGED <<users, config, now, held, inflight, db, pg, seed, logins>>

\* a direct call of the refresh validator of the Manager interface
ValidateRefresh ==
    \E p \in Presented :
        LET r == ParseAndValidateRefreshToken(config, p.tok, now) IN
        /\ last' = [op |-> "ParseAndValidateRefreshToken", repeat |-> NilResp, faults |-> NoFaults, time |-> now,
                    req |-> NoReq, input |-> p, err |-> r.err, resp |-> NilResp,
                    claims |-> r.claims, calls |-> << >>]
        /\ UNCHANGED <<users, config, now, held, inflight, db, pg, seed, logins>>

Next == Tick \/ Login \/ Refresh \/ ValidateAccess \/ ValidateRefresh

Spec == Init /\ [][Next]_vars

(* ------------------------------ HTTP binding ------------------------------ *)
\* http.StatusText
StatusText(code) ==
    CASE code = 200 -> "OK"
      [] code = 201 -> "Created"
      [] code = 400 -> "Bad Request"
      [] code = 401 -> "Unauthorized"
      [] code = 404 -> "Not Found"
      [] code = 500 -> "Internal Server Error"
      [] code = 502 -> "Bad Gateway"
      [] OTHER -> ""

\* the JSON written to the client: meta.code (also the status line), meta.message, data.token
SendSuccess(code, token) == [code |-> code, message |-> StatusText(code), token |-> token]
SendError(code, message) == [code |-> code, message |-> message, token |-> NilResp]

\* ctx.ShouldBindJSON succeeds: the body is JSON and every required field is non-empty
BindAuth(malformed, username, password) == ~malformed /\ username # "" /\ password # ""
BindRefresh(malformed, tok) == ~malformed /\ tok # EmptyTok

\* the use case was not called
NotCalled == [resp |-> NilResp, err |-> Nil, calls |-> << >>]

\* authRoutes.Login answering 401 for an unknown user as well
LoginRouteNotFoundAsUnauthorized(bound, r) ==
    IF ~bound THEN SendError(400, "Invalid request payload")
    ELSE IF r.err # Nil
    THEN IF r.err = ErrInvalidCredentials \/ r.err = ErrNotFound
         THEN SendError(401, "Invalid username or password")
         ELSE SendError(500, "Internal server error")
    ELSE SendSuccess(200, r.resp)

\* authRoutes.Login, r being the result of AuthUseCase.Login when the body was bound
LoginRoute(bound, r) ==
    IF ~bound THEN SendError(400, "Invalid request payload")
    ELSE IF r.err # Nil
    THEN IF r.err = ErrInvalidCredentials THEN SendError(401, "Invalid username or password")
         ELSE IF r.err = ErrNotFound THEN SendError(404, "User not found")
         ELSE SendError(500, "Internal server error")
    ELSE SendSuccess(200, r.resp)

\* authRoutes.Refresh, r being the result of AuthUseCase.Refresh when the body was bound
RefreshRoute(bound, r) ==
    IF ~bound THEN SendError(400, "Invalid request payload")
    ELSE IF r.err # Nil
    THEN IF r.err = ErrInvalidTokenType THEN SendError(401, "Invalid token type")
         ELSE IF r.err = ErrInvalidToken THEN SendError(401, "Invalid token")
         ELSE SendError(500, "Internal server error")
    ELSE SendSuccess(200, r.resp)

\* POST /auth/login
PostLogin ==
    \E malformed \in BOOLEAN, username \in LoginNames, password \in Passwords, dbErr \in DbErrs,
       accErr \in SignErrs, refErr \in SignErrs, keep \in Keeps :
        LET bound == BindAuth(malformed, username, password)
            r == IF bound
                 THEN LoginResult(config, users, username, password, now, dbErr, accErr, refErr)
                 ELSE NotCalled
        IN
        /\ Pruned(r, accErr, refErr, keep)
        /\ ~bound => dbErr = Nil
        /\ malformed => (username = "" /\ password = "")
        /\ last' = [op |-> "POST /auth/login", repeat |-> NilResp,
                    faults |-> [db |-> dbErr, acc |-> accErr, ref |-> refErr], time |-> now,
                    req |-> [UserName |-> username, Password |-> password], input |-> NoHeld,
                    err |-> r.err, resp |-> r.resp, claims |-> NilClaims, calls |-> r.calls,
                    bound |-> bound, http |-> LoginRoute(bound, r)]
        /\ held' = Keep(keep, r.resp, GetByUsername(users, username, Nil).user.ID)
        /\ UNCHANGED <<users, config, now, inflight, db, pg, seed, logins>>

\* POST /auth/refresh
PostRefresh ==
    \E malformed \in BOOLEAN, p \in Presented, accErr \in SignErrs, refErr \in SignErrs,
       keep \in Keeps :
        LET bound == BindRefresh(malformed, p.tok)
            r == IF bound THEN RefreshResult(config, p.tok, now, accErr, refErr) ELSE NotCalled
        IN
        /\ Pruned(r, accErr, refErr, keep)
        /\ malformed => p = NoHeld
        /\ last' = [op |-> "POST /auth/refresh", repeat |-> NilResp,
                    faults |-> [db |-> Nil, acc |-> accErr, ref |-> refErr], time |-> now,
                    req |-> NoReq, input |-> p,
                    err |-> r.err, resp |-> r.resp, claims |-> NilClaims, calls |-> r.calls,
                    bound |-> bound, http |-> RefreshRoute(bound, r)]
        /\ held' = Keep(keep, r.resp, p.tok.user_id)
        /\ UNCHANGED <<users, config, now, inflight, db, pg, seed, logins>>

HttpNext == Tick \/ PostLogin \/ PostRefresh

HttpSpec == Init /\ [][HttpNext]_vars

(* --------------------------- concurrent requests --------------------------- *)
\* a goroutine is inside a call
Busy(g) == inflight[g].pc \notin {"idle", "done"}

\* the goroutine's record after a step, noting whether another call was under way
Stepped(g, c) ==
    [c EXCEPT !.overlapped = inflight[g].overlapped \/ (\E h \in Procs \ {g} : Busy(h))]

\* return resp, err
Return(c, resp, err) == [c EXCEPT !.pc = "done", !.resp = resp, !.err = err]

\* the HTTP server starts a handler goroutine for a request
Call ==
    \E g \in Procs :
        /\ inflight[g].pc = "idle"
        /\ \/ \E username \in LoginNames, password \in Passwords :
                 inflight' = [inflight EXCEPT ![g] =
                     Stepped(g, [Idle EXCEPT !.pc = "GetByUsername", !.op = "Login",
                                             !.req = [UserName |-> username, Password |-> password]])]
           \/ \E tok \in Tokens :
                 inflight' = [inflight EXCEPT ![g] =
                     Stepped(g, [Idle EXCEPT !.pc = "ParseAndValidateRefreshToken",
                                             !.op = "Refresh", !.tok = tok])]
        /\ UNCHANGED <<users, config, now, held, last, db, pg, seed, logins>>

\* user, err := u.userRepo.GetByUsername(ctx, req.UserName)
GetByUsernameStep ==
    \E g \in Procs, dbErr \in DbErrs :
        LET c == [inflight[g] EXCEPT !.faults.db = dbErr]
            got == GetByUsername(users, c.req.UserName, dbErr)
        IN
        /\ c.pc = "GetByUsername"
        /\ inflight' = [inflight EXCEPT ![g] = Stepped(g,
                IF got.err # Nil THEN Return(c, NilResp, got.err)
                ELSE [c EXCEPT !.pc = "CompareHashAndPassword", !.user = got.user])]
        /\ UNCHANGED <<users, config, now, held, last, db, pg, seed, logins>>

\* bcrypt.CompareHashAndPassword([]byte(user.Password), []byte(req.Password))
CompareHashAndPasswordStep ==
    \E g \in Procs :
        LET c == inflight[g] IN
        /\ c.pc = "CompareHashAndPassword"
        /\ inflight' = [inflight EXCEPT ![g] = Stepped(g,
                IF CompareHashAndPassword(c.user.Password, c.req.Password) # Nil
                THEN Return(c, NilResp, ErrInvalidCredentials)
                ELSE [c EXCEPT !.pc = "GenerateAccessToken", !.userID = c.user.ID])]
        /\ UNCHANGED <<users, config, now, held, last, db, pg, seed, logins>>

\* claims, err := u.jwtManager.ParseAndValidateRefreshToken(refreshToken), then the
\* assertion claims["user_id"].(string)
ParseAndValidateRefreshTokenStep ==
    \E g \in Procs :
        LET c == inflight[g]
            parsed == ParseAndValidateRefreshToken(config, c.tok, now)
        IN
        /\ c.pc = "ParseAndValidateRefreshToken"
        /\ inflight' = [inflight EXCEPT ![g] = Stepped(g,
                IF parsed.err # Nil THEN Return(c, NilResp, parsed.err)
                ELSE IF parsed.claims.user_id \in {Absent, NonString}
                THEN Return(c, NilResp, ErrInvalidTokenClaims)
                ELSE [c EXCEPT !.pc = "GenerateAccessToken", !.userID = parsed.claims.user_id])]
        /\ UNCHANGED <<users, config, now, held, last, db, pg, seed, logins>>

\* an access-token step that takes the user id from a field shared by the goroutines
GenerateAccessTokenStepSharedUserID ==
    \E g \in Procs, h \in Procs, accErr \in SignErrs :
        LET c == [inflight[g] EXCEPT !.faults.acc = accErr]
            acc == GenerateAccessToken(config, inflight[h].userID, now, accErr)
        IN
        /\ c.pc = "GenerateAccessToken"
        /\ inflight[h].userID # Absent
        /\ inflight' = [inflight EXCEPT ![g] = Stepped(g,
                IF acc.err # Nil THEN Return(c, NilResp, acc.err)
                ELSE [c EXCEPT !.pc = "GenerateRefreshToken", !.accessToken = acc.tok])]
        /\ UNCHANGED <<users, config, now, held, last, db, pg, seed, logins>>

\* accessToken, err := u.jwtManager.GenerateAccessToken(userID)
GenerateAccessTokenStep ==
    \E g \in Procs, accErr \in SignErrs :
        LET c == [inflight[g] EXCEPT !.faults.acc = accErr]
            acc == GenerateAccessToken(config, c.userID, now, accErr)
        IN
        /\ c.pc = "GenerateAccessToken"
        /\ inflight' = [inflight EXCEPT ![g] = Stepped(g,
                IF acc.err # Nil THEN Return(c, NilResp, acc.err)
                ELSE [c EXCEPT !.pc = "GenerateRefreshToken", !.accessToken = acc.tok])]
        /\ UNCHANGED <<users, config, now, held, last, db, pg, seed, logins>>

\* refreshToken, err := u.jwtManager.GenerateRefreshToken(userID), then the return of the pair
GenerateRefreshTokenStep ==
    \E g \in Procs, refErr \in SignErrs :
        LET c == [inflight[g] EXCEPT !.faults.ref = refErr]
            ref == GenerateRefreshToken(config, c.userID, now, refErr)
        IN
        /\ c.pc = "GenerateRefreshToken"
        /\ inflight' = [inflight EXCEPT ![g] = Stepped(g,
                IF ref.err # Nil THEN Return(c, NilResp, ref.err)
                ELSE Return(c, AuthResponseDTO(c.accessToken, ref.tok), Nil))]
        /\ UNCHANGED <<users, config, now, held, last, db, pg, seed, logins>>

ConcNext ==
    \/ Call
    \/ GetByUsernameStep
    \/ CompareHashAndPasswordStep
    \/ ParseAndValidateRefreshTokenStep
    \/ GenerateAccessTokenStep
    \/ GenerateRefreshTokenStep

ConcSpec == Init /\ [][ConcNext]_vars

(* -------------------------------- seedUsers -------------------------------- *)
MaxRuns == 2

\* the users slice of seedUsers
SeedList ==
    << [Username |-> "admin", Password |-> "admin123"],
       [Username |-> "user1", Password |-> "password123"],
       [Username |-> "user2", Password |-> "password123"],
       [Username |-> "testuser", Password |-> "test123"] >>
SeedNames == {SeedList[i].Username : i \in DOMAIN SeedList}

\* the id the users table gives to a new row
NewUserID(username) == IF username = "testuser" THEN "id-test" ELSE "id-" \o username

ErrHashing == "bcrypt: hashing failed"
HashErrs == {Nil, ErrHashing}

\* the users tables seedUsers may find: any of the seed usernames may already be registered,
\* with a password that is not the seed password
SeedTables ==
    {[u \in present |-> [ID |-> NewUserID(u), Username |-> u,
                         Password |-> GenerateFromPassword("changed")]] :
        present \in SUBSET SeedNames}

\* UserRepo.Create: INSERT INTO users (username, password)
UserRepoCreate(us, user, dbErr) ==
    IF dbErr # Nil THEN [users |-> us, err |-> dbErr]
    ELSE [users |-> [u \in DOMAIN us \cup {user.Username} |->
                        IF u = user.Username
                        THEN [ID |-> NewUserID(u), Username |-> u, Password |-> user.Password]
                        ELSE us[u]],
          err |-> Nil]

\* the loop goes on with the next user, or seedUsers returns nil after the last one
Continue(sd) ==
    IF sd.i = Len(SeedList) THEN [sd EXCEPT !.pc = "done", !.err = Nil]
    ELSE [sd EXCEPT !.pc = "GetByUsername", !.i = sd.i + 1]

\* return err
SeedReturn(sd, err) == [sd EXCEPT !.pc = "done", !.err = err]

\* Run calls seedUsers (once per start of the application)
SeedStart ==
    /\ seed.pc \in {"idle", "done"}
    /\ seed.run < MaxRuns
    /\ seed' = [NotSeeded EXCEPT !.pc = "GetByUsername", !.run = seed.run + 1, !.i = 1,
                                 !.prevErr = seed.err, !.before = users]
    /\ UNCHANGED <<users, config, now, held, last, inflight, db, pg, logins>>

\* a lookup step that goes on to create the user although it was found
SeedLookupNoSkip ==
    \E dbErr \in DbErrs :
        LET got == GetByUsername(users, SeedList[seed.i].Username, dbErr)
            sd == [seed EXCEPT !.lookupErr = got.err,
                               !.lookups = Append(seed.lookups, SeedList[seed.i].Username)]
        IN
        /\ seed.pc = "GetByUsername"
        /\ seed' = IF got.err # Nil /\ got.err # ErrNotFound THEN SeedReturn(sd, got.err)
                   ELSE [sd EXCEPT !.pc = "GenerateFromPassword"]
        /\ UNCHANGED <<users, config, now, held, last, inflight, db, pg, logins>>

\* existingUser, err := userRepo.GetByUsername(ctx, u.Username) and the two checks after it
SeedLookup ==
    \E dbErr \in DbErrs :
        LET got == GetByUsername(users, SeedList[seed.i].Username, dbErr)
            sd == [seed EXCEPT !.lookupErr = got.err,
                               !.lookups = Append(seed.lookups, SeedList[seed.i].Username)]
        IN
        /\ seed.pc = "GetByUsername"
        /\ seed' = IF got.err # Nil /\ got.err # ErrNotFound THEN SeedReturn(sd, got.err)
                   ELSE IF got.err = Nil THEN Continue(sd)
                   ELSE [sd EXCEPT !.pc = "GenerateFromPassword"]
        /\ UNCHANGED <<users, config, now, held, last, inflight, db, pg, logins>>

\* hashedPassword, err := bcrypt.GenerateFromPassword([]byte(u.Password), bcrypt.DefaultCost)
SeedHash ==
    \E hashErr \in HashErrs :
        /\ seed.pc = "GenerateFromPassword"
        /\ seed' = IF hashErr # Nil THEN SeedReturn(seed, hashErr)
                   ELSE [seed EXCEPT !.pc = "Create",
                                     !.hashed = GenerateFromPassword(SeedList[seed.i].Password)]
        /\ UNCHANGED <<users, config, now, held, last, inflight, db, pg, logins>>

\* err = userRepo.Create(ctx, user)
SeedCreate ==
    \E dbErr \in DbErrs :
        LET user == [Username |-> SeedList[seed.i].Username, Password |-> seed.hashed]
            r == UserRepoCreate(users, user, dbErr)
            sd == [seed EXCEPT !.creates = Append(seed.creates,
                                   [Username |-> user.Username, lookupErr |-> seed.lookupErr,
                                    stored |-> user.Username \in DOMAIN users])]
        IN
        /\ seed.pc = "Create"
        /\ users' = r.users
        /\ seed' = IF r.err # Nil THEN SeedReturn(sd, r.err) ELSE Continue(sd)
        /\ UNCHANGED <<config, now, held, last, inflight, db, pg, logins>>

SeedInit ==
    /\ users \in SeedTables
    /\ config \in Configs
    /\ now = 0
    /\ held = NoHeld
    /\ last = NoCall(0)
    /\ inflight = [g \in Procs |-> Idle]
    /\ db = NoRows
    /\ pg = NotConnected
    /\ seed = NotSeeded
    /\ logins = {}

SeedNext == SeedStart \/ SeedLookup \/ SeedHash \/ SeedCreate

SeedSpec == SeedInit /\ [][SeedNext]_vars

(* ------------------------------ postgres.New ------------------------------ *)
DefaultConnAttempts == 10

ErrOpen == "sql: open failed"
ErrPing == "ping failed"

\* the *sql.DB of one attempt: nil when sql.Open failed
NilHandle == [opened |-> FALSE, pinged |-> "none", closed |-> FALSE]
OpenHandle == [opened |-> TRUE, pinged |-> "none", closed |-> FALSE]

\* Run calls postgres.New; only MaxPoolSize is passed, connAttempts keeps its default
PgNew ==
    /\ pg.pc = "idle"
    /\ pg' = [NotConnected EXCEPT !.pc = "loop", !.connAttempts = DefaultConnAttempts,
                                  !.attempt = 1]
    /\ UNCHANGED <<users, config, now, held, last, inflight, db, seed, logins>>

\* the loop condition attempt <= pg.connAttempts
PgLoop ==
    /\ pg.pc = "loop"
    /\ pg' = [pg EXCEPT !.pc = IF pg.attempt <= pg.connAttempts THEN "Open" ELSE "after"]
    /\ UNCHANGED <<users, config, now, held, last, inflight, db, seed, logins>>

\* db, err = sql.Open("postgres", url)
PgOpen ==
    \E err \in {Nil, ErrOpen} :
        /\ pg.pc = "Open"
        /\ pg' = [pg EXCEPT !.err = err,
                            !.handles = Append(pg.handles, IF err # Nil THEN NilHandle ELSE OpenHandle),
                            !.pc = IF err # Nil THEN "Sleep" ELSE "PingContext"]
        /\ UNCHANGED <<users, config, now, held, last, inflight, db, seed, logins>>

\* a ping step that leaves the handle of a failed ping open
PgPingNoClose ==
    \E err \in {Nil, ErrPing} :
        /\ pg.pc = "PingContext"
        /\ pg' = [pg EXCEPT !.err = err,
                            !.handles[Len(pg.handles)].pinged = IF err # Nil THEN "failed" ELSE "ok",
                            !.pc = IF err # Nil THEN "Sleep" ELSE "after"]
        /\ UNCHANGED <<users, config, now, held, last, inflight, db, seed, logins>>

\* err = db.PingContext(ctx); on failure db.Close(), on success break
PgPing ==
    \E err \in {Nil, ErrPing} :
        /\ pg.pc = "PingContext"
        /\ pg' = [pg EXCEPT !.err = err,
                            !.handles[Len(pg.handles)].pinged = IF err # Nil THEN "failed" ELSE "ok",
                            !.handles[Len(pg.handles)].closed = (err # Nil),
                            !.pc = IF err # Nil THEN "Sleep" ELSE "after"]
        /\ UNCHANGED <<users, config, now, held, last, inflight, db, seed, logins>>

\* time.Sleep(pg.connTimeout); continue
PgSleep ==
    /\ pg.pc = "Sleep"
    /\ pg' = [pg EXCEPT !.attempt = pg.attempt + 1, !.pc = "loop"]
    /\ UNCHANGED <<users, config, now, held, last, inflight, db, seed, logins>>

\* after the loop: return nil, error, or pg.DB = db and return pg
PgReturn ==
    /\ pg.pc = "after"
    /\ pg' = IF pg.err # Nil THEN [pg EXCEPT !.pc = "done", !.returned = "error"]
             ELSE [pg EXCEPT !.pc = "done", !.returned = "Postgres", !.DB = Len(pg.handles)]
    /\ UNCHANGED <<users, config, now, held, last, inflight, db, seed, logins>>

PgNext == PgNew \/ PgLoop \/ PgOpen \/ PgPing \/ PgSleep \/ PgReturn

PgSpec == Init /\ [][PgNext]_vars

(* ------------------------------ token provenance ------------------------------ *)
\* where a presented token comes from: the credentials of the Login at the start of the
\* chain of responses it was taken from, or no Login at all
NoRoot == [UserName |-> "", Password |-> "", login |-> FALSE]
Rooted(p, root) == [tok |-> p.tok, origin |-> p.origin, subject |-> p.subject,
                    issuedAt |-> p.issuedAt, root |-> root]

\* the tokens a client can present: the one it kept, and any it made up or was given by
\* another holder of a secret
ProvPresented == {held} \cup {Rooted(Forged(tok), NoRoot) : tok \in Tokens}

\* Login, with the client keeping a token of the response and the credentials it gave
ProvLogin ==
    \E username \in LoginNames, password \in Passwords, dbErr \in DbErrs, keep \in Keeps :
        LET r == LoginResult(config, users, username, password, now, dbErr, Nil, Nil)
            user == GetByUsername(users, username, Nil).user
        IN
        /\ last = NoCall(now)
        /\ Pruned(r, Nil, Nil, keep)
        /\ dbErr # Nil => (username = "admin" /\ password = "admin123")
        /\ last' = [op |-> "Login", repeat |-> NilResp,
                    faults |-> [db |-> dbErr, acc |-> Nil, ref |-> Nil], time |-> now,
                    req |-> [UserName |-> username, Password |-> password], input |-> held,
                    err |-> r.err, resp |-> r.resp, claims |-> NilClaims, calls |-> r.calls]
        /\ held' = IF r.resp.isNil \/ keep = "none" THEN held
                   ELSE Rooted(Keep(keep, r.resp, user.ID),
                               [UserName |-> username, Password |-> password, login |-> TRUE])
        /\ logins' = IF r.err = Nil THEN logins \cup {user.ID} ELSE logins
        /\ UNCHANGED <<users, config, now, inflight, db, pg, seed>>

\* Refresh, with the client keeping a token of the response
ProvRefresh ==
    \E p \in ProvPresented, keep \in Keeps :
        LET r == RefreshResult(config, p.tok, now, Nil, Nil) IN
        /\ last = NoCall(now)
        /\ Pruned(r, Nil, Nil, keep)
        /\ last' = [op |-> "Refresh", repeat |-> NilResp, faults |-> NoFaults, time |-> now,
                    req |-> NoReq, input |-> p, err |-> r.err, resp |-> r.resp,
                    claims |-> NilClaims, calls |-> r.calls]
        /\ held' = IF r.resp.isNil \/ keep = "none" THEN held
                   ELSE Rooted(Keep(keep, r.resp, p.subject), p.root)
        /\ UNCHANGED <<users, config, now, inflight, db, pg, seed, logins>>

\* a call of one of the two validators
ProvValidate ==
    \E p \in ProvPresented, validator \in {"ParseAndValidateAccessToken",
                                           "ParseAndValidateRefreshToken"} :
        LET r == IF validator = "ParseAndValidateAccessToken"
                 THEN ParseAndValidateAccessToken(config, p.tok, now)
                 ELSE ParseAndValidateRefreshToken(config, p.tok, now)
        IN
        /\ last = NoCall(now)
        /\ last' = [op |-> validator, repeat |-> NilResp, faults |-> NoFaults, time |-> now,
                    req |-> NoReq, input |-> p, err |-> r.err, resp |-> NilResp,
                    claims |-> r.claims, calls |-> << >>]
        /\ UNCHANGED <<users, config, now, held, inflight, db, pg, seed, logins>>

\* the call has returned and the client has taken what it keeps
ProvReturn ==
    /\ last # NoCall(now)
    /\ last' = NoCall(now)
    /\ UNCHANGED <<users, config, now, held, inflight, db, pg, seed, logins>>

\* the clock advances between two calls
ProvTick ==
    /\ last = NoCall(now)
    /\ now < MaxTime
    /\ now' = now + 1
    /\ last' = NoCall(now + 1)
    /\ UNCHANGED <<users, config, held, inflight, db, pg, seed, logins>>

ProvInit ==
    /\ users = SeededUsers
    /\ config \in Configs
    /\ now = 0
    /\ held = Rooted(NoHeld, NoRoot)
    /\ last = NoCall(0)
    /\ inflight = [g \in Procs |-> Idle]
    /\ db = NoRows
    /\ pg = NotConnected
    /\ seed = NotSeeded
    /\ logins = {}

ProvNext == ProvTick \/ ProvLogin \/ ProvRefresh \/ ProvValidate \/ ProvReturn

ProvSpec == ProvInit /\ [][ProvNext]_vars

(* ------------------------------ repositories ------------------------------ *)
MaxRows == 2

\* the ids a request can name: those a table can have given out, and 0 that it never gives
RowIDs == 0..MaxRows

ErrForeignKey == "pq: foreign key violation"

\* INSERT ... RETURNING id: the table gives the row the next id
SqlInsert(table, row) ==
    [serial |-> table.serial + 1,
     rows |-> [i \in DOMAIN table.rows \cup {table.serial + 1} |->
                 IF i = table.serial + 1 THEN row ELSE table.rows[i]]]

\* UPDATE ... WHERE id = ?, with the number of rows affected
SqlUpdate(table, id, row) ==
    IF id \in DOMAIN table.rows
    THEN [table |-> [table EXCEPT !.rows[id] = row], rowsAffected |-> 1]
    ELSE [table |-> table, rowsAffected |-> 0]

\* DELETE ... WHERE id = ?, with the number of rows affected
SqlDelete(table, id) ==
    IF id \in DOMAIN table.rows
    THEN [table |-> [table EXCEPT !.rows = [i \in DOMAIN table.rows \ {id} |-> table.rows[i]]],
          rowsAffected |-> 1]
    ELSE [table |-> table, rowsAffected |-> 0]

\* the repository Create of categories, news and custom pages
RepoCreate(table, row, dbErr) ==
    IF dbErr # Nil THEN [table |-> table, id |-> 0, err |-> dbErr]
    ELSE [table |-> SqlInsert(table, row), id |-> table.serial + 1, err |-> Nil]

\* an Update that ignores the number of rows affected
RepoUpdateNoRowsCheck(table, id, row, dbErr) ==
    IF dbErr # Nil THEN [table |-> table, err |-> dbErr]
    ELSE [table |-> SqlUpdate(table, id, row).table, err |-> Nil]

\* CategoryRepo.Update, NewsRepo.Update, CustomPageRepo.Update
RepoUpdate(table, id, row, dbErr) ==
    IF dbErr # Nil THEN [table |-> table, err |-> dbErr]
    ELSE LET result == SqlUpdate(table, id, row) IN
         IF result.rowsAffected = 0 THEN [table |-> result.table, err |-> ErrNotFound]
         ELSE [table |-> result.table, err |-> Nil]

\* CategoryRepo.Delete, NewsRepo.Delete, CustomPageRepo.Delete
RepoDelete(table, id, dbErr) ==
    IF dbErr # Nil THEN [table |-> table, err |-> dbErr]
    ELSE LET result == SqlDelete(table, id) IN
         IF result.rowsAffected = 0 THEN [table |-> result.table, err |-> ErrNotFound]
         ELSE [table |-> result.table, err |-> Nil]

\* a news row
NewsRow(authorID, title) == [AuthorID |-> authorID, Title |-> title]

\* a goroutine calling a repository
RepoIdle == [pc |-> "idle", op |-> "none", NewsID |-> 0, exists |-> FALSE, err |-> Nil,
             inserted |-> FALSE]

\* NewsRepo.Create
RepoNewsCreate ==
    /\ db.news.serial < MaxRows
    /\ db' = [db EXCEPT !.news = RepoCreate(db.news, NewsRow("id-admin", "title"), Nil).table]
    /\ UNCHANGED <<users, config, now, held, last, inflight, pg, seed, logins>>

\* a handler goroutine calls CommentRepo.Create or NewsRepo.Delete
RepoCall ==
    \E g \in Procs, id \in RowIDs, op \in {"CommentRepo.Create", "NewsRepo.Delete"} :
        /\ inflight[g].pc = "idle"
        /\ inflight' = [inflight EXCEPT ![g] =
               Stepped(g, [RepoIdle EXCEPT !.pc = IF op = "NewsRepo.Delete" THEN "Delete"
                                                  ELSE "Exists",
                                           !.op = op, !.NewsID = id])]
        /\ UNCHANGED <<users, config, now, held, last, db, pg, seed, logins>>

\* an existence check whose answer is not looked at
CommentExistsUnchecked ==
    \E g \in Procs, dbErr \in DbErrs :
        LET c == inflight[g]
            exists == c.NewsID \in DOMAIN db.news.rows
        IN
        /\ c.pc = "Exists"
        /\ inflight' = [inflight EXCEPT ![g] = Stepped(g,
                IF dbErr # Nil THEN [c EXCEPT !.pc = "done", !.err = dbErr]
                ELSE [c EXCEPT !.pc = "Insert", !.exists = exists])]
        /\ UNCHANGED <<users, config, now, held, last, db, pg, seed, logins>>

\* SELECT EXISTS(SELECT 1 FROM news WHERE id = ?), Scan(&exists), and the check of exists
CommentExists ==
    \E g \in Procs, dbErr \in DbErrs :
        LET c == inflight[g]
            exists == c.NewsID \in DOMAIN db.news.rows
        IN
        /\ c.pc = "Exists"
        /\ inflight' = [inflight EXCEPT ![g] = Stepped(g,
                IF dbErr # Nil THEN [c EXCEPT !.pc = "done", !.err = dbErr]
                ELSE IF ~exists THEN [c EXCEPT !.pc = "done", !.err = ErrNotFound]
                ELSE [c EXCEPT !.pc = "Insert", !.exists = TRUE])]
        /\ UNCHANGED <<users, config, now, held, last, db, pg, seed, logins>>

\* INSERT INTO comments (name, news_id, comment); for a news_id that has no news row the
\* table either takes the row or refuses it, depending on the constraints of its schema
CommentInsert ==
    \E g \in Procs, dbErr \in DbErrs \cup {ErrForeignKey} :
        LET c == inflight[g]
            orphan == c.NewsID \notin DOMAIN db.news.rows
        IN
        /\ c.pc = "Insert"
        /\ dbErr = ErrForeignKey => orphan
        /\ inflight' = [inflight EXCEPT ![g] = Stepped(g,
                [c EXCEPT !.pc = "done", !.err = dbErr, !.inserted = (dbErr = Nil)])]
        /\ db' = IF dbErr # Nil THEN db
                 ELSE [db EXCEPT !.comments = db.comments \cup
                                   {[NewsID |-> c.NewsID, orphan |-> orphan]}]
        /\ UNCHANGED <<users, config, now, held, last, pg, seed, logins>>

\* NewsRepo.Delete
NewsDelete ==
    \E g \in Procs, dbErr \in DbErrs :
        LET c == inflight[g]
            r == RepoDelete(db.news, c.NewsID, dbErr)
        IN
        /\ c.pc = "Delete"
        /\ inflight' = [inflight EXCEPT ![g] = Stepped(g, [c EXCEPT !.pc = "done", !.err = r.err])]
        /\ db' = [db EXCEPT !.news = r.table]
        /\ UNCHANGED <<users, config, now, held, last, pg, seed, logins>>

RepoNext == RepoNewsCreate \/ RepoCall \/ CommentExists \/ CommentInsert \/ NewsDelete

RepoSpec == Init /\ [][RepoNext]_vars

(* ------------------------------ resource API ------------------------------ *)
Resources == {"categories", "news", "pages"}

\* the routes the groups register: method, group and path
Routes == [method : {"GET"}, resource : Resources, path : {"", "/:id"}]
            \cup [method : {"POST"}, resource : Resources, path : {""}]
            \cup [method : {"PUT", "DELETE"}, resource : Resources, path : {"/:id"}]

\* the routes registered with authMiddleware before the handler
Protected(route) == route.method \in {"POST", "PUT", "DELETE"}

\* the Authorization header: absent, of another scheme, or "Bearer " and a token
NoHeader == [prefix |-> "", tok |-> EmptyTok]
\* the tokens sent to the API: those signed with the access secret of every configuration,
\* and of those signed with the other secret one
ApiTokens == {tok \in Tokens : tok.form = "jwt" => (tok.key = "secret-b" \/ Differences(tok) = 0)}
Headers == {NoHeader, [prefix |-> "Basic ", tok |-> Garbage]}
             \cup [prefix : {"Bearer "}, tok : ApiTokens]

\* a middleware that sets whatever the user_id claim holds
AuthMiddlewareAnyClaim(cfg, header, t) ==
    IF header = NoHeader
    THEN [abort |-> TRUE, user_id |-> Absent,
          http |-> SendError(401, "Authorization header is required")]
    ELSE IF header.prefix # "Bearer "
    THEN [abort |-> TRUE, user_id |-> Absent,
          http |-> SendError(401, "Invalid authorization header format")]
    ELSE IF header.tok = EmptyTok
    THEN [abort |-> TRUE, user_id |-> Absent, http |-> SendError(401, "Token is required")]
    ELSE LET r == ParseAndValidateAccessToken(cfg, header.tok, t) IN
         IF r.err # Nil
         THEN [abort |-> TRUE, user_id |-> Absent,
               http |-> SendError(401, "Invalid or expired token")]
         ELSE [abort |-> FALSE, user_id |-> r.claims.user_id, http |-> SendSuccess(200, NilResp)]

\* AuthMiddleware: the response it aborts with, or the user_id it sets before ctx.Next()
AuthMiddleware(cfg, header, t) ==
    IF header = NoHeader
    THEN [abort |-> TRUE, user_id |-> Absent,
          http |-> SendError(401, "Authorization header is required")]
    ELSE IF header.prefix # "Bearer "
    THEN [abort |-> TRUE, user_id |-> Absent,
          http |-> SendError(401, "Invalid authorization header format")]
    ELSE IF header.tok = EmptyTok
    THEN [abort |-> TRUE, user_id |-> Absent, http |-> SendError(401, "Token is required")]
    ELSE LET r == ParseAndValidateAccessToken(cfg, header.tok, t) IN
         IF r.err # Nil
         THEN [abort |-> TRUE, user_id |-> Absent,
               http |-> SendError(401, "Invalid or expired token")]
         ELSE IF r.claims.user_id \in {Absent, NonString}
         THEN [abort |-> TRUE, user_id |-> Absent,
               http |-> SendError(401, "Invalid token claims")]
         ELSE [abort |-> FALSE, user_id |-> r.claims.user_id, http |-> SendSuccess(200, NilResp)]

\* the table behind a route group
TableOf(resource) ==
    CASE resource = "categories" -> "categories"
      [] resource = "news" -> "news"
      [] resource = "pages" -> "custom_pages"

\* the entity a Create use case builds
NewRow(resource, authorID) ==
    CASE resource = "categories" -> [Name |-> "name"]
      [] resource = "news" -> NewsRow(authorID, "title")
      [] resource = "pages" -> [AuthorID |-> authorID, Content |-> "content"]

\* the row an Update use case writes over row
Edited(resource, row) ==
    CASE resource = "categories" -> [row EXCEPT !.Name = "name-2"]
      [] resource = "news" -> [row EXCEPT !.Title = "title-2"]
      [] resource = "pages" -> [row EXCEPT !.Content = "content-2"]

NotFoundMessage(resource) ==
    CASE resource = "categories" -> "Category not found"
      [] resource = "news" -> "News not found"
      [] resource = "pages" -> "Page not found"

\* the rows all tables have been given
TotalSerial(d) == d.categories.serial + d.news.serial + d.custom_pages.serial

\* what a handler leaves: the table, the response, whether and with which author the use
\* case was called, and the error the use case returned
Handled(table, http, called, authorID, err) ==
    [table |-> table, http |-> http, called |-> called, authorID |-> authorID, err |-> err]

\* a Create handler that takes the author from the request body
CreateHandlerAuthorFromBody(resource, table, bound, ctxUser, dbErr) ==
    IF ~bound
    THEN Handled(table, SendError(400, "Invalid request payload"), FALSE, Absent, Nil)
    ELSE IF resource # "categories" /\ ctxUser = Absent
    THEN Handled(table, SendError(401, "User not authenticated"), FALSE, Absent, Nil)
    ELSE IF resource # "categories" /\ ctxUser = NonString
    THEN Handled(table, SendError(500, "Invalid user ID format"), FALSE, Absent, Nil)
    ELSE LET authorID == IF resource = "categories" THEN Absent ELSE "id-admin"
             r == RepoCreate(table, NewRow(resource, authorID), dbErr)
         IN
         IF r.err # Nil
         THEN Handled(r.table, SendError(500, "Internal server error"), TRUE, authorID, r.err)
         ELSE Handled(r.table, SendSuccess(201, NilResp), TRUE, authorID, Nil)

\* categoryRoutes.Create, newsRoutes.Create, customPageRoutes.Create with their use cases
CreateHandler(resource, table, bound, ctxUser, dbErr) ==
    IF ~bound
    THEN Handled(table, SendError(400, "Invalid request payload"), FALSE, Absent, Nil)
    ELSE IF resource # "categories" /\ ctxUser = Absent
    THEN Handled(table, SendError(401, "User not authenticated"), FALSE, Absent, Nil)
    ELSE IF resource # "categories" /\ ctxUser = NonString
    THEN Handled(table, SendError(500, "Invalid user ID format"), FALSE, Absent, Nil)
    ELSE LET authorID == IF resource = "categories" THEN Absent ELSE ctxUser
             r == RepoCreate(table, NewRow(resource, authorID), dbErr)
         IN
         IF r.err # Nil
         THEN Handled(r.table, SendError(500, "Internal server error"), TRUE, authorID, r.err)
         ELSE Handled(r.table, SendSuccess(201, NilResp), TRUE, authorID, Nil)

\* categoryRoutes.Update, newsRoutes.Update, customPageRoutes.Update with their use cases
UpdateHandler(resource, table, id, bound, dbErr) ==
    IF ~bound
    THEN Handled(table, SendError(400, "Invalid request payload"), FALSE, Absent, Nil)
    ELSE LET row == IF id \in DOMAIN table.rows THEN Edited(resource, table.rows[id])
                    ELSE Edited(resource, NewRow(resource, Absent))
             r == RepoUpdate(table, id, row, dbErr)
         IN
         IF r.err = ErrNotFound
         THEN Handled(r.table, SendError(404, NotFoundMessage(resource)), TRUE, Absent, r.err)
         ELSE IF r.err # Nil
         THEN Handled(r.table, SendError(500, "Internal server error"), TRUE, Absent, r.err)
         ELSE Handled(r.table, SendSuccess(200, NilResp), TRUE, Absent, Nil)

\* categoryRoutes.Delete, newsRoutes.Delete, customPageRoutes.Delete with their use cases
DeleteHandler(resource, table, id, dbErr) ==
    LET r == RepoDelete(table, id, dbErr) IN
    IF r.err = ErrNotFound
    THEN Handled(r.table, SendError(404, NotFoundMessage(resource)), TRUE, Absent, r.err)
    ELSE IF r.err # Nil
    THEN Handled(r.table, SendError(500, "Internal server error"), TRUE, Absent, r.err)
    ELSE Handled(r.table, SendSuccess(200, NilResp), TRUE, Absent, Nil)

\* GetAll (path "") and GetByID (path "/:id") of the three groups with their use cases
GetHandler(resource, table, path, id, dbErr) ==
    IF dbErr # Nil
    THEN Handled(table, SendError(500, "Internal server error"), TRUE, Absent, dbErr)
    ELSE IF path = "/:id" /\ id \notin DOMAIN table.rows
    THEN Handled(table, SendError(404, NotFoundMessage(resource)), TRUE, Absent, ErrNotFound)
    ELSE Handled(table, SendSuccess(200, NilResp), TRUE, Absent, Nil)

\* a request is being served
InRequest == "pc" \in DOMAIN last

\* a request as the engine receives it; before is the database at that moment
Received(via, route, header, ctxUser) ==
    [op |-> "request", pc |-> IF via = "router" /\ Protected(route) THEN "AuthMiddleware"
                              ELSE "handler",
     via |-> via, route |-> route, header |-> header, user_id |-> ctxUser, id |-> 0,
     bound |-> FALSE, dbErr |-> Nil, executed |-> FALSE, called |-> FALSE, authorID |-> Absent,
     err |-> Nil, http |-> SendSuccess(200, NilResp), before |-> db]

\* the state of the request after its handler returned
Served(id, bound, dbErr, h) ==
    [last EXCEPT !.pc = "respond", !.id = id, !.bound = bound, !.dbErr = dbErr,
                 !.executed = TRUE, !.called = h.called, !.authorID = h.authorID,
                 !.err = h.err, !.http = h.http]

\* a client sends a request to a route of NewRouter
ApiRequest ==
    \E route \in Routes, header \in Headers :
        /\ ~InRequest
        /\ route.method = "POST" => TotalSerial(db) < MaxRows
        /\ ~Protected(route) => header \in {NoHeader, [prefix |-> "Bearer ", tok |-> Garbage]}
        /\ last' = Received("router", route, header, Absent)
        /\ UNCHANGED <<users, config, now, held, inflight, db, pg, seed, logins>>

\* a controller test sends a request to a Create handler mounted on a bare engine, behind a
\* stub that sets user_id in the context or leaves it out
TestRequest ==
    \E resource \in {"news", "pages"}, ctxUser \in {Absent, NonString, "id-admin"} :
        /\ ~InRequest
        /\ TotalSerial(db) < MaxRows
        /\ last' = Received("test", [method |-> "POST", resource |-> resource, path |-> ""],
                            NoHeader, ctxUser)
        /\ UNCHANGED <<users, config, now, held, inflight, db, pg, seed, logins>>

\* the middleware ahead of the handler of a protected route
ApiAuthMiddleware ==
    LET r == AuthMiddleware(config, last.header, now) IN
    /\ InRequest /\ last.pc = "AuthMiddleware"
    /\ last' = IF r.abort THEN [last EXCEPT !.pc = "respond", !.http = r.http]
               ELSE [last EXCEPT !.pc = "handler", !.user_id = r.user_id]
    /\ UNCHANGED <<users, config, now, held, inflight, db, pg, seed, logins>>

\* POST /categories, POST /news, POST /pages
ApiCreate ==
    \E bound \in BOOLEAN, dbErr \in DbErrs :
        LET resource == last.route.resource
            h == CreateHandler(resource, db[TableOf(resource)], bound, last.user_id, dbErr)
        IN
        /\ InRequest /\ last.pc = "handler" /\ last.route.method = "POST"
        /\ ~h.called => dbErr = Nil
        /\ db' = [db EXCEPT ![TableOf(resource)] = h.table]
        /\ last' = Served(0, bound, dbErr, h)
        /\ UNCHANGED <<users, config, now, held, inflight, pg, seed, logins>>

\* PUT /categories/:id, PUT /news/:id, PUT /pages/:id
ApiUpdate ==
    \E id \in RowIDs, bound \in BOOLEAN, dbErr \in DbErrs :
        LET resource == last.route.resource
            h == UpdateHandler(resource, db[TableOf(resource)], id, bound, dbErr)
        IN
        /\ InRequest /\ last.pc = "handler" /\ last.route.method = "PUT"
        /\ ~h.called => dbErr = Nil
        /\ db' = [db EXCEPT ![TableOf(resource)] = h.table]
        /\ last' = Served(id, bound, dbErr, h)
        /\ UNCHANGED <<users, config, now, held, inflight, pg, seed, logins>>

\* DELETE /categories/:id, DELETE /news/:id, DELETE /pages/:id
ApiDelete ==
    \E id \in RowIDs, dbErr \in DbErrs :
        LET resource == last.route.resource
            h == DeleteHandler(resource, db[TableOf(resource)], id, dbErr)
        IN
        /\ InRequest /\ last.pc = "handler" /\ last.route.method = "DELETE"
        /\ db' = [db EXCEPT ![TableOf(resource)] = h.table]
        /\ last' = Served(id, TRUE, dbErr, h)
        /\ UNCHANGED <<users, config, now, held, inflight, pg, seed, logins>>

\* GET /categories, /news, /pages and GET /categories/:id, /news/:id, /pages/:id
ApiGet ==
    \E id \in RowIDs, dbErr \in DbErrs :
        LET resource == last.route.resource
            h == GetHandler(resource, db[TableOf(resource)], last.route.path, id, dbErr)
        IN
        /\ InRequest /\ last.pc = "handler" /\ last.route.method = "GET"
        /\ last.route.path = "" => id = 0
        /\ last' = Served(id, TRUE, dbErr, h)
        /\ UNCHANGED <<users, config, now, held, inflight, db, pg, seed, logins>>

\* the response is written and the request is over
ApiRespond ==
    /\ InRequest /\ last.pc = "respond"
    /\ last' = NoCall(now)
    /\ UNCHANGED <<users, config, now, held, inflight, db, pg, seed, logins>>

ApiNext ==
    \/ ApiRequest \/ TestRequest \/ ApiAuthMiddleware
    \/ ApiCreate \/ ApiUpdate \/ ApiDelete \/ ApiGet \/ ApiRespond

\* the token lifetimes play no part in the resource API and are fixed
ApiInit == Init /\ config.AccessTokenTTL = MaxTTL /\ config.RefreshTokenTTL = MaxTTL

ApiSpec == ApiInit /\ [][ApiNext]_vars

(* ------------------------------ properties ------------------------------ *)
\* the password is the one the stored hash was generated from
Matches(hash, pw) == hash = GenerateFromPassword(pw)
Stored(username) == username \in DOMAIN users
Generated(calls) == {"GenerateAccessToken", "GenerateRefreshToken"} \cap Range(calls)
IsLogin == last.op = "Login"
IsRefresh == last.op = "Refresh"
IsAccessCheck == last.op = "ParseAndValidateAccessToken"
IsRefreshCheck == last.op = "ParseAndValidateRefreshToken"
Unexpired(tok, t) == t < tok.exp * TicksPerSec
DistinctSecrets == config.AccessTokenSecretKey # config.RefreshTokenSecretKey

\* C1: a login that names a stored user with the password its hash was generated from, the
\* lookup and both token generators succeeding, returns a token pair and no error.
C1_LoginSucceeds ==
    (IsLogin /\ Stored(last.req.UserName) /\ last.faults = NoFaults
       /\ Matches(users[last.req.UserName].Password, last.req.Password))
    => (last.err = Nil /\ ~last.resp.isNil
          /\ last.resp.AccessToken.form = "jwt" /\ last.resp.RefreshToken.form = "jwt")

C1_Witness ==
    /\ IsLogin /\ last.req = [UserName |-> "admin", Password |-> "admin123"]
    /\ last.faults = NoFaults /\ last.err = Nil /\ ~last.resp.isNil

\* C2: a login that names a stored user with a password that does not match the stored hash
\* (the empty password included) returns exactly InvalidCredentials, no token pair, and calls
\* neither token generator.
C2_MismatchRejected ==
    (IsLogin /\ Stored(last.req.UserName) /\ last.faults.db = Nil
       /\ ~Matches(users[last.req.UserName].Password, last.req.Password))
    => (last.err = ErrInvalidCredentials /\ last.resp.isNil /\ Generated(last.calls) = {})

C2_Witness ==
    /\ IsLogin /\ last.req = [UserName |-> "admin", Password |-> ""] /\ last.faults.db = Nil
    /\ last.err = ErrInvalidCredentials /\ last.resp.isNil

\* C3: when the lookup in the credential store fails, Login returns exactly the store's error
\* (NotFound for an unknown or empty username, a database error unchanged), no token pair,
\* and generates no token.
C3_LookupErrorPassedThrough ==
    (IsLogin /\ (last.faults.db # Nil \/ ~Stored(last.req.UserName)))
    => (/\ last.err = (IF last.faults.db # Nil THEN last.faults.db ELSE ErrNotFound)
        /\ last.resp.isNil
        /\ last.calls = <<"GetByUsername">>)

C3_Witness ==
    /\ IsLogin /\ last.req.UserName = "" /\ last.faults.db = Nil
    /\ last.err = ErrNotFound /\ last.resp.isNil

\* C4 (as amended): an access token generated at time t for a subject is accepted by
\* ParseAndValidateAccessToken, with that subject as user_id, at every time before its expiry
\* and rejected at every time after it, the expiry being t + AccessTokenTTL truncated to a
\* whole second.
C4_AccessTokenLifetime ==
    (IsAccessCheck /\ last.input.origin = "GenerateAccessToken")
    => LET expiry == ((last.input.issuedAt + config.AccessTokenTTL) \div TicksPerSec) * TicksPerSec IN
       /\ (last.time < expiry => (last.err = Nil /\ last.claims.user_id = last.input.subject))
       /\ (last.time > expiry => (last.err # Nil /\ last.claims.isNil))

C4_Witness ==
    /\ IsAccessCheck /\ last.input.origin = "GenerateAccessToken"
    /\ last.time > last.input.issuedAt
    /\ last.err = Nil /\ last.claims.user_id = "id-user1"

\* C4 (as stated): the same with the expiry t + AccessTokenTTL itself.
C4_Original ==
    (IsAccessCheck /\ last.input.origin = "GenerateAccessToken")
    => LET expiry == last.input.issuedAt + config.AccessTokenTTL IN
       /\ (last.time < expiry => (last.err = Nil /\ last.claims.user_id = last.input.subject))
       /\ (last.time > expiry => (last.err # Nil /\ last.claims.isNil))

\* C5 (as amended): a token produced by GenerateAccessToken is rejected by
\* ParseAndValidateRefreshToken under every configuration, and a token produced by
\* GenerateRefreshToken is rejected by ParseAndValidateAccessToken under every configuration
\* whose access and refresh secrets differ.
C5_CrossKindRejection ==
    /\ (IsRefreshCheck /\ last.input.origin = "GenerateAccessToken")
         => (last.err # Nil /\ last.claims.isNil)
    /\ (IsAccessCheck /\ last.input.origin = "GenerateRefreshToken" /\ DistinctSecrets)
         => (last.err # Nil /\ last.claims.isNil)

C5_Witness ==
    /\ IsAccessCheck /\ last.input.origin = "GenerateRefreshToken" /\ DistinctSecrets
    /\ Unexpired(last.input.tok, last.time) /\ last.err = ErrTokenSignatureInvalid

\* C5 (as stated): cross-kind rejection under any configuration.
C5_Original ==
    /\ (IsRefreshCheck /\ last.input.origin = "GenerateAccessToken")
         => (last.err # Nil /\ last.claims.isNil)
    /\ (IsAccessCheck /\ last.input.origin = "GenerateRefreshToken")
         => (last.err # Nil /\ last.claims.isNil)

\* C6: Refresh called with a token issued by GenerateAccessToken fails with exactly
\* InvalidTokenType and generates no tokens.
C6_AccessTokenAsRefresh ==
    (IsRefresh /\ last.input.origin = "GenerateAccessToken")
    => (last.err = ErrInvalidTokenType /\ last.resp.isNil /\ Generated(last.calls) = {})

\* C7: ParseAndValidateRefreshToken given an unexpired token signed with the refresh secret
\* whose type claim is absent or different from "refresh" fails with InvalidTokenType, never
\* with InvalidToken.
C7_NonRefreshTagged ==
    (IsRefreshCheck /\ last.input.tok.form = "jwt"
       /\ last.input.tok.key = config.RefreshTokenSecretKey
       /\ Unexpired(last.input.tok, last.time) /\ last.input.tok.type # "refresh")
    => (last.err = ErrInvalidTokenType /\ last.err # ErrInvalidToken /\ last.claims.isNil)

C7_Witness ==
    /\ IsRefreshCheck /\ last.input.tok.form = "jwt"
    /\ last.input.tok.key = config.RefreshTokenSecretKey
    /\ Unexpired(last.input.tok, last.time) /\ last.input.tok.type = Absent
    /\ last.err = ErrInvalidTokenType

\* C8: Refresh called with a refresh token that has expired, or whose signature does not
\* verify with the refresh secret, fails with exactly InvalidToken and generates no tokens;
\* ParseAndValidateAccessToken likewise fails with InvalidToken on a signature or expiry failure.
C8_InvalidTokenKind ==
    /\ (IsRefresh /\ last.input.tok.form = "jwt"
          /\ (~Unexpired(last.input.tok, last.time) \/ last.input.tok.key # config.RefreshTokenSecretKey))
         => (last.err = ErrInvalidToken /\ last.resp.isNil /\ Generated(last.calls) = {})
    /\ (IsAccessCheck /\ last.input.tok.form = "jwt"
          /\ (~Unexpired(last.input.tok, last.time) \/ last.input.tok.key # config.AccessTokenSecretKey))
         => last.err = ErrInvalidToken

\* C9: whenever Refresh succeeds on a refresh token issued earlier, the access token and the
\* refresh token it returns both differ from the input token.
C9_NewTokensDifferFromInput ==
    (IsRefresh /\ last.input.origin = "GenerateRefreshToken" /\ last.err = Nil)
    => (last.resp.AccessToken # last.input.tok /\ last.resp.RefreshToken # last.input.tok)

\* C10: two successful Refresh calls with the same refresh token return different tokens.
C10_RefreshOutputsDiffer ==
    (IsRefresh /\ last.err = Nil /\ ~last.repeat.isNil)
    => (last.resp.AccessToken # last.repeat.AccessToken
          /\ last.resp.RefreshToken # last.repeat.RefreshToken)


\* C11: Refresh does not revoke its input: whatever calls were made before, a refresh token
\* issued earlier is accepted by Refresh at every time before its own expiry (its exp claim)
\* and is rejected, as expired, only from its expiry on.
Accepted(calls) == Len(calls) >= 2 /\ calls[2] = "GenerateAccessToken"
C11_NoRevocation ==
    (IsRefresh /\ last.input.origin = "GenerateRefreshToken")
    => /\ Unexpired(last.input.tok, last.time)
            => (Accepted(last.calls) /\ (last.faults = NoFaults => last.err = Nil))
       /\ ~Unexpired(last.input.tok, last.time)
            => (last.err = ErrTokenExpired /\ last.resp.isNil)
       /\ ~Accepted(last.calls) => ~Unexpired(last.input.tok, last.time)

C11_Witness ==
    /\ IsRefresh /\ last.input.origin = "GenerateRefreshToken"
    /\ last.time > last.input.issuedAt
    /\ ~last.repeat.isNil /\ last.err = Nil

\* C12: whenever Login succeeds, the access token and the refresh token it returns are both
\* non-empty and differ from each other.
C12_LoginTokensDistinct ==
    (IsLogin /\ last.err = Nil)
    => /\ ~last.resp.isNil
       /\ last.resp.AccessToken # EmptyTok /\ last.resp.AccessToken.form = "jwt"
       /\ last.resp.RefreshToken # EmptyTok /\ last.resp.RefreshToken.form = "jwt"
       /\ last.resp.AccessToken # last.resp.RefreshToken

C12_Witness ==
    /\ IsLogin /\ last.err = Nil /\ ~DistinctSecrets
    /\ config.AccessTokenTTL = config.RefreshTokenTTL
    /\ last.resp.AccessToken.exp = last.resp.RefreshToken.exp

\* C13: for a user whose stored hash is malformed or empty Login fails with an internal error
\* that is not InvalidCredentials, and InvalidCredentials is returned only when a well-formed
\* stored hash does not match the password.
C13_MalformedHashDistinguished ==
    (IsLogin /\ Stored(last.req.UserName) /\ last.faults.db = Nil)
    => /\ ~users[last.req.UserName].Password.wf
            => (last.err # Nil /\ last.err # ErrInvalidCredentials)
       /\ last.err = ErrInvalidCredentials
            => (users[last.req.UserName].Password.wf
                  /\ ~Matches(users[last.req.UserName].Password, last.req.Password))

\* C14: in Login and in Refresh a failure to sign the access token fails the operation with
\* the GenerateAccessToken error kind, a failure to sign the refresh token with the
\* GenerateRefreshToken error kind, and no token pair is returned.
C14_GenerationErrorKinds ==
    (IsLogin \/ IsRefresh)
    => /\ last.faults.acc # Nil => (last.err = ErrGenerateAccessToken /\ last.resp.isNil)
       /\ (last.faults.acc = Nil /\ last.faults.ref # Nil)
            => (last.err = ErrGenerateRefreshToken /\ last.resp.isNil)

\* C15: Refresh called with a token that passes the refresh validation but whose claims hold
\* no user_id, or one that is not a string, fails with exactly InvalidTokenClaims and calls
\* neither token generator.
PassesRefreshValidation(tok, t) ==
    /\ tok.form = "jwt" /\ tok.key = config.RefreshTokenSecretKey
    /\ Unexpired(tok, t) /\ tok.type = "refresh"
C15_SubjectClaimRequired ==
    (IsRefresh /\ PassesRefreshValidation(last.input.tok, last.time)
       /\ last.input.tok.user_id \in {Absent, NonString})
    => (last.err = ErrInvalidTokenClaims /\ last.resp.isNil /\ Generated(last.calls) = {})

C15_Witness ==
    /\ IsRefresh /\ PassesRefreshValidation(last.input.tok, last.time)
    /\ last.input.tok.user_id = NonString
    /\ last.err = ErrInvalidTokenClaims /\ last.calls = <<"ParseAndValidateRefreshToken">>

\* C16: Login and Refresh never modify the credential store: after any sequence of calls,
\* successful or failing, the user records are the ones there were, and the only call made
\* on the store is GetByUsername.
C16_StoreUnchanged ==
    /\ users = SeededUsers
    /\ Range(last.calls) \subseteq {"GetByUsername", "ParseAndValidateRefreshToken",
                                     "GenerateAccessToken", "GenerateRefreshToken"}

C16_Witness ==
    /\ IsLogin /\ last.err = ErrNotFound /\ last.req.UserName = "ghost"
    /\ held.origin = "GenerateRefreshToken"
    /\ DOMAIN users = Usernames

\* C18: no retry: one Login queries the store exactly once and calls each generator at most
\* once, one Refresh calls the refresh validator exactly once and each generator at most once,
\* and a collaborator call that failed is the last call made, its error being returned.
Count(calls, name) == Cardinality({i \in DOMAIN calls : calls[i] = name})
C18_NoRetry ==
    /\ IsLogin => /\ Count(last.calls, "GetByUsername") = 1
                  /\ Count(last.calls, "ParseAndValidateRefreshToken") = 0
    /\ IsRefresh => /\ Count(last.calls, "ParseAndValidateRefreshToken") = 1
                    /\ Count(last.calls, "GetByUsername") = 0
    /\ (IsLogin \/ IsRefresh)
         => /\ Count(last.calls, "GenerateAccessToken") <= 1
            /\ Count(last.calls, "GenerateRefreshToken") <= 1
            /\ last.faults.db # Nil
                 => (last.calls = <<"GetByUsername">> /\ last.err = last.faults.db)
            /\ last.faults.acc # Nil
                 => (last.calls[Len(last.calls)] = "GenerateAccessToken" /\ last.err = last.faults.acc)
            /\ (last.faults.acc = Nil /\ last.faults.ref # Nil)
                 => (last.calls[Len(last.calls)] = "GenerateRefreshToken" /\ last.err = last.faults.ref)
            /\ (Generated(last.calls) = {}) => Len(last.calls) = 1

C18_Witness ==
    /\ IsLogin /\ last.faults.acc = ErrSigning
    /\ last.calls = <<"GetByUsername", "GenerateAccessToken">> /\ last.err = ErrSigning

\* C19: POST /auth/login answers 200 with the token pair under data.token when Login
\* succeeds, 401 "Invalid username or password" when it fails with InvalidCredentials,
\* 404 "User not found" when it fails with NotFound, and 500 "Internal server error" when it
\* fails with any other error.
IsPostLogin == last.op = "POST /auth/login"
IsPostRefresh == last.op = "POST /auth/refresh"
C20_InvalidTokenTypeStatus ==
    (IsPostRefresh /\ last.bound /\ last.err = ErrInvalidTokenType)
    => last.http = SendError(502, "Invalid token type")

\* C17: concurrent Login and Refresh calls do not interfere: however their steps interleave,
\* each call returns what it returns when run alone against the same store contents and
\* clock, and no step writes the configuration of the JWT manager or the store.
Alone(c) ==
    IF c.op = "Login"
    THEN LoginResult(config, users, c.req.UserName, c.req.Password, now,
                     c.faults.db, c.faults.acc, c.faults.ref)
    ELSE RefreshResult(config, c.tok, now, c.faults.acc, c.faults.ref)
SameOutcome(c) == c.resp = Alone(c).resp /\ c.err = Alone(c).err
C17_NoInterference ==
    /\ config \in Configs /\ users = SeededUsers
    /\ \A g \in Procs : inflight[g].pc = "done" => SameOutcome(inflight[g])

C17_Witness ==
    /\ \A g \in Procs : inflight[g].pc = "done" /\ inflight[g].overlapped
    /\ inflight["g1"].op = "Login" /\ inflight["g1"].err = Nil
    /\ inflight["g2"].op = "Refresh" /\ inflight["g2"].err = Nil
    /\ inflight["g1"].resp.AccessToken.user_id # inflight["g2"].resp.AccessToken.user_id

\* C24: subject preservation: both tokens of a successful Refresh carry the subject id of the
\* presented refresh token, and both tokens of a successful Login carry the id of the user
\* record stored under the username.
Subjects(resp) == {resp.AccessToken.user_id, resp.RefreshToken.user_id}
C24_SubjectPreserved ==
    /\ (IsRefresh /\ last.err = Nil) => Subjects(last.resp) = {last.input.tok.user_id}
    /\ (IsLogin /\ last.err = Nil)
         => (Stored(last.req.UserName) /\ Subjects(last.resp) = {users[last.req.UserName].ID})

C24_Witness ==
    /\ IsRefresh /\ last.err = Nil /\ last.input.tok.user_id = "id-user1"
    /\ last.input.origin = "GenerateRefreshToken"
    /\ Subjects(last.resp) = {"id-user1"}

\* C25: in Login and in Refresh the access token is generated before the refresh token, the
\* refresh generator is never called when the access generator failed, and a call that
\* returns an error returns a nil response.
Position(calls, name) == CHOOSE i \in DOMAIN calls : calls[i] = name
C25_AccessBeforeRefresh ==
    (IsLogin \/ IsRefresh)
    => /\ "GenerateRefreshToken" \in Range(last.calls)
            => /\ "GenerateAccessToken" \in Range(last.calls)
               /\ Position(last.calls, "GenerateAccessToken")
                    < Position(last.calls, "GenerateRefreshToken")
       /\ last.faults.acc # Nil => "GenerateRefreshToken" \notin Range(last.calls)
       /\ last.err # Nil => last.resp.isNil
       /\ last.err = Nil => ~last.resp.isNil

C25_Witness ==
    /\ IsRefresh /\ last.faults.ref = ErrSigning /\ last.err = ErrSigning /\ last.resp.isNil
    /\ last.calls = <<"ParseAndValidateRefreshToken", "GenerateAccessToken", "GenerateRefreshToken">>

\* C28: seedUsers is idempotent: it calls Create for a seed username only when GetByUsername
\* returned NotFound, never creates or overwrites a user that already exists, and creates
\* nothing in a run that follows a successful run; it returns the error of the first lookup
\* failure other than NotFound, hashing failure or create failure, and looks up no username
\* after the one that failed.
Prefix(seq, n) == [i \in 1..n |-> seq[i].Username]
C28_SeedIdempotent ==
    /\ \A k \in DOMAIN seed.creates :
          seed.creates[k].lookupErr = ErrNotFound /\ ~seed.creates[k].stored
    /\ seed.pc # "idle" => \A u \in DOMAIN seed.before :
                                u \in DOMAIN users /\ users[u] = seed.before[u]
    /\ (seed.run > 1 /\ seed.prevErr = Nil) => seed.creates = << >>
    /\ seed.pc \notin {"idle", "done"} => seed.lookups = Prefix(SeedList, Len(seed.lookups))
    /\ seed.pc = "done"
         => /\ seed.lookups = Prefix(SeedList, seed.i)
            /\ seed.err = Nil => (seed.i = Len(SeedList) /\ SeedNames \subseteq DOMAIN users)
            /\ seed.err # Nil => seed.err \in {ErrDatabaseConnection, ErrHashing}

C28_Witness ==
    /\ seed.pc = "done" /\ seed.run = 2 /\ seed.prevErr = Nil /\ seed.err = Nil
    /\ seed.creates = << >> /\ Len(seed.lookups) = Len(SeedList)
    /\ users["admin"].Password = GenerateFromPassword("changed")
    /\ users["user2"].Password = GenerateFromPassword("password123")

\* C30: postgres.New makes at most connAttempts connection attempts, makes none after the
\* first attempt whose open and ping both succeeded, has closed the handle of every attempt
\* whose ping failed, returns an error exactly when every attempt failed, and on success
\* returns a Postgres holding the open handle of the successful attempt.
Succeeded(h) == h.opened /\ h.pinged = "ok"
C30_ConnectionAttempts ==
    /\ Len(pg.handles) <= pg.connAttempts
    /\ \A k \in DOMAIN pg.handles : Succeeded(pg.handles[k]) => k = Len(pg.handles)
    /\ \A k \in DOMAIN pg.handles : pg.handles[k].pinged = "failed" => pg.handles[k].closed
    /\ pg.pc = "done"
         => /\ pg.returned = "error"
                  <=> (\A k \in DOMAIN pg.handles : ~Succeeded(pg.handles[k]))
            /\ pg.returned = "error" => (Len(pg.handles) = pg.connAttempts /\ pg.DB = 0)
            /\ pg.returned = "Postgres"
                  => /\ pg.DB = Len(pg.handles) /\ pg.DB > 0
                     /\ Succeeded(pg.handles[pg.DB]) /\ ~pg.handles[pg.DB].closed

C30_Witness ==
    /\ pg.pc = "done" /\ pg.returned = "Postgres" /\ pg.DB = 3
    /\ ~pg.handles[1].opened /\ pg.handles[2].pinged = "failed" /\ pg.handles[2].closed

\* C23: CommentRepo.Create for a news id that matches no news row returns NotFound and
\* inserts no comment; it executes the INSERT only after its existence check returned true;
\* and a failure of the existence check is returned unchanged, nothing being inserted.
IsCommentCreate(c) == c.op = "CommentRepo.Create"
C23_Step(g) ==
    LET c == inflight[g]
        c2 == inflight'[g]
        found == c.NewsID \in DOMAIN db.news.rows
    IN
    (IsCommentCreate(c) /\ c2 # c)
    => /\ c.pc = "Exists"
           => /\ db' = db
              /\ c2.pc \in {"Insert", "done"}
              /\ c2.pc = "Insert" => (found /\ c2.exists /\ c2.err = Nil)
              /\ c2.pc = "done" => (~c2.exists /\ c2.err \in {ErrNotFound} \cup (DbErrs \ {Nil}))
              /\ ~found => (c2.pc = "done" /\ ~c2.inserted)
              /\ (found /\ c2.pc = "done") => c2.err \in DbErrs \ {Nil}
       /\ db'.comments # db.comments => (c.pc = "Insert" /\ c.exists)
       /\ c2.inserted => (c.pc = "Insert" /\ c.exists)
C23_CommentNeedsNews == [][\A g \in Procs : C23_Step(g)]_vars

C23_Witness ==
    /\ IsCommentCreate(inflight["g1"]) /\ inflight["g1"].pc = "done"
    /\ inflight["g1"].NewsID = 2 /\ inflight["g1"].err = ErrNotFound
    /\ IsCommentCreate(inflight["g2"]) /\ inflight["g2"].inserted /\ inflight["g2"].NewsID = 1
    /\ db.comments = {[NewsID |-> 1, orphan |-> FALSE]}

\* C27: with CommentRepo.Create and NewsRepo.Delete running concurrently on one news id, no
\* comment is inserted for a news row that no longer exists at the moment of the insert:
\* Create ends as its existence check and its insert taken as one atomic step would.
C27_CheckAndInsertAtomic ==
    /\ \A comment \in db.comments : ~comment.orphan
    /\ \A g \in Procs : IsCommentCreate(inflight[g]) => inflight[g].err # ErrForeignKey

\* the request being served came through NewRouter
Routed == InRequest /\ last.via = "router"

\* the header is "Bearer " and a non-empty token that ParseAndValidateAccessToken accepts
\* and whose user_id claim is a string
Authorized(header) ==
    /\ header.prefix = "Bearer " /\ header.tok # EmptyTok
    /\ ParseAndValidateAccessToken(config, header.tok, now).err = Nil
    /\ header.tok.user_id \notin {Absent, NonString}

\* a token as GenerateRefreshToken makes it
IsRefreshToken(tok) ==
    tok.form = "jwt" /\ tok.type = "refresh" /\ tok.key = config.RefreshTokenSecretKey

\* C21: the create, update and delete handlers of categories, news and custom pages run only
\* for a request whose Authorization header is "Bearer " and a non-empty token that
\* ParseAndValidateAccessToken accepts with a string user_id; every other request to them is
\* answered 401 without the handler running and without a change of the database; a refresh
\* token is such a request when the two secrets differ; the GET endpoints run without a
\* token.
C21_HandlerNeedsAccessToken ==
    Routed =>
        /\ (Protected(last.route) /\ (last.pc = "handler" \/ last.executed))
             => Authorized(last.header)
        /\ (Protected(last.route) /\ ~Authorized(last.header) /\ last.pc = "respond")
             => (last.http.code = 401 /\ ~last.executed /\ ~last.called /\ db = last.before)
        /\ (Protected(last.route) /\ Authorized(last.header) /\ last.pc = "respond")
             => (last.executed /\ last.http.message \notin
                   {"Authorization header is required", "Invalid authorization header format",
                    "Token is required", "Invalid or expired token", "Invalid token claims"})
        /\ (Protected(last.route) /\ IsRefreshToken(last.header.tok)
              /\ config.RefreshTokenSecretKey # config.AccessTokenSecretKey)
             => ~Authorized(last.header)
        /\ (~Protected(last.route) /\ last.pc = "respond")
             => (last.executed /\ last.http.code # 401)

\* C21 as stated: a request carrying a refresh token is among those answered 401
C21_RefreshTokenUnauthorized ==
    (Routed /\ Protected(last.route) /\ last.header.prefix = "Bearer "
       /\ IsRefreshToken(last.header.tok))
    => (~last.executed /\ last.pc # "handler" /\ (last.pc = "respond" => last.http.code = 401))

C21_Witness ==
    /\ Routed /\ last.route.method = "DELETE" /\ last.pc = "respond" /\ last.executed
    /\ last.header.tok.type = Absent /\ last.http.code = 200
    /\ db # last.before

C21_WitnessRejected ==
    /\ Routed /\ last.route.method = "PUT" /\ last.pc = "respond" /\ ~last.executed
    /\ last.http.message = "Invalid token claims"

\* C22: an Update or Delete of a category, news article or custom page that reaches the
\* repository and whose statement executes fails with NotFound, answered 404, and leaves
\* all rows as they were when its id matches no stored row; it succeeds only when the row
\* with that id, and no other row, was affected.
C22_Called ==
    /\ InRequest /\ last.pc = "respond" /\ last.route.method \in {"PUT", "DELETE"}
    /\ last.called /\ last.dbErr = Nil
C22_NotFoundOrOneRow ==
    C22_Called =>
        LET name == TableOf(last.route.resource)
            old == last.before[name].rows
            new == db[name].rows
        IN
        /\ last.id \notin DOMAIN old
             => (last.err = ErrNotFound /\ last.http.code = 404 /\ db = last.before)
        /\ last.id \in DOMAIN old => (last.err = Nil /\ last.http.code = 200)
        /\ last.err = Nil
             => /\ last.id \in DOMAIN old
                /\ \A other \in {"categories", "news", "custom_pages", "comments"} \ {name} :
                       db[other] = last.before[other]
                /\ \A i \in DOMAIN old \ {last.id} : i \in DOMAIN new /\ new[i] = old[i]
                /\ last.route.method = "DELETE" => DOMAIN new = DOMAIN old \ {last.id}
                /\ last.route.method = "PUT"
                     => (DOMAIN new = DOMAIN old
                         /\ new[last.id] = Edited(last.route.resource, old[last.id]))

C22_Witness ==
    /\ C22_Called /\ last.route.method = "PUT" /\ last.route.resource = "news"
    /\ last.id = 2 /\ last.err = ErrNotFound /\ last.http.code = 404
    /\ 1 \in DOMAIN db.news.rows /\ db.news.rows[1].Title = "title-2"

\* a news article or custom page is being created
IsAuthoredCreate ==
    /\ InRequest /\ last.pc = "respond" /\ last.executed
    /\ last.route.method = "POST" /\ last.route.resource \in {"news", "pages"}

\* C26: for every news article or custom page created through the API the author id passed
\* to the use case, and stored with the row, is the user_id claim of the access token that
\* authenticated the request; a create handler whose request body binds answers 401 if the
\* context holds no user_id and 500 if it holds a value that is no string, and one whose
\* body does not bind answers 400; in none of these cases is the use case called.
C26_AuthorIsTokenSubject ==
    IsAuthoredCreate =>
        LET name == TableOf(last.route.resource) IN
        /\ (last.via = "router" /\ last.called)
             => (last.authorID = last.header.tok.user_id /\ Authorized(last.header))
        /\ (last.called /\ last.err = Nil)
             => (/\ db[name].serial = last.before[name].serial + 1
                 /\ db[name].rows[db[name].serial].AuthorID = last.authorID)
        /\ last.called => (last.bound /\ last.authorID = last.user_id)
        /\ (last.bound /\ last.user_id = Absent)
             => (last.http = SendError(401, "User not authenticated") /\ ~last.called)
        /\ (last.bound /\ last.user_id = NonString)
             => (last.http = SendError(500, "Invalid user ID format") /\ ~last.called)
        /\ ~last.bound => (last.http.code = 400 /\ ~last.called)
        /\ ~last.called => db = last.before

\* C26 as stated: whatever the body, no user_id is answered 401 and a non-string one 500
C26_ContextDecidesStatus ==
    IsAuthoredCreate =>
        /\ last.user_id = Absent => (last.http.code = 401 /\ ~last.called)
        /\ last.user_id = NonString => (last.http.code = 500 /\ ~last.called)

C26_Witness ==
    /\ IsAuthoredCreate /\ last.via = "router" /\ last.route.resource = "pages"
    /\ last.called /\ last.err = Nil /\ last.authorID = "id-user1"
    /\ db.custom_pages.rows[db.custom_pages.serial].AuthorID = "id-user1"

C26_WitnessNoUser ==
    /\ IsAuthoredCreate /\ last.via = "test" /\ last.bound /\ last.user_id = Absent
    /\ last.http.code = 401

\* a validator has just accepted the token presented to it
ValidatorAccepted ==
    /\ last.op \in {"ParseAndValidateAccessToken", "ParseAndValidateRefreshToken"}
    /\ last.err = Nil

\* the stored users with this id whose stored hash matches the password
StoredWith(id, password) ==
    {u \in DOMAIN users : users[u].ID = id
                            /\ CompareHashAndPassword(users[u].Password, password) = Nil}

====
